---- MODULE Spec2Model ----
(***************************************************************************)
(* mercari_agent: the recommendation pipeline of                           *)
(* RecommendationService.recommend (src/mercari_agent/recommender.py).     *)
(*                                                                         *)
(* One call of recommend is modelled as a state machine: the search        *)
(* fan-out (asyncio.gather over client.search), the synchronous block that *)
(* pools, deduplicates, filters, scores and cuts, the enrichment fan-out   *)
(* (asyncio.gather over client.enrich_item), and the merge and deep rank.  *)
(* The client's answers are fixed by Init; the order in which the          *)
(* concurrent calls complete is left to the next-state relation.           *)
(* SpecFilter applies _should_include alone to one product under one       *)
(* configuration.                                                          *)
(*                                                                         *)
(* Python values: a str is a sequence of one-character strings, an         *)
(* Optional[int], Optional[float] or optional sub-record is <<>> (None)    *)
(* or <<v>>, an optional identifier or tag is None or a string.  Scores    *)
(* are exact rationals over one common denominator per call (the floats of *)
(* the source are not rounded here).                                       *)
(***************************************************************************)
EXTENDS Integers, Sequences, FiniteSets, TLC

\* ------------------------------------------------------------------ values

\* Python's None where the value is otherwise a string (id_, item_type).
None == "None"

\* Python's None where the value is otherwise a number or a record.
Nothing == <<>>

Some(v) == <<v>>

\* Truthiness of an Optional[int] / Optional[float]: None and 0 are falsy.
Truthy(opt) == opt # Nothing /\ opt[1] # 0

\* `opt or 0.0`
OrZero(opt) == IF Truthy(opt) THEN opt[1] ELSE 0

\* Truthiness of an optional string: None and "" are falsy.
TruthyStr(s) == s # None /\ s # ""

Max(a, b) == IF a >= b THEN a ELSE b

Min(a, b) == IF a <= b THEN a ELSE b

Abs(a) == IF a >= 0 THEN a ELSE 0 - a

Range(s) == {s[i] : i \in 1..Len(s)}

\* ------------------------------------------------------------------ text

\* str.lower() on one character of the model's alphabet.
LowerChar(c) ==
    CASE c = "A" -> "a"
      [] c = "B" -> "b"
      [] c = "C" -> "c"
      [] OTHER -> c

\* str.lower()
lower(s) == [i \in 1..Len(s) |-> LowerChar(s[i])]

\* The character class of tokenize's regular expression, on lowercased text.
TokenChar(c) == c \in {"a", "b", "c", "1"}

RECURSIVE findall(_, _, _)
\* re.findall(r"[A-Za-z0-9...]+", s): the maximal runs of token characters,
\* left to right; `run` is the run being read at position i.
findall(s, i, run) ==
    IF i > Len(s)
    THEN (IF run = <<>> THEN <<>> ELSE <<run>>)
    ELSE IF TokenChar(s[i])
         THEN findall(s, i + 1, Append(run, s[i]))
         ELSE (IF run = <<>> THEN <<>> ELSE <<run>>) \o findall(s, i + 1, <<>>)

RECURSIVE uniq(_, _)
\* The seen/uniq loop of tokenize: first occurrences, in order.
uniq(tokens, acc) ==
    IF tokens = <<>>
    THEN acc
    ELSE uniq(Tail(tokens),
              IF Head(tokens) \in Range(acc) THEN acc ELSE Append(acc, Head(tokens)))

tokenize(text) == uniq(findall(lower(text), 1, <<>>), <<>>)

RECURSIVE join(_)
\* " ".join(texts)
join(texts) ==
    IF texts = <<>> THEN <<>>
    ELSE IF Len(texts) = 1 THEN Head(texts)
    ELSE Head(texts) \o <<" ">> \o join(Tail(texts))

\* `t in name` for two strings.
Contains(name, t) ==
    \E i \in 0..(Len(name) - Len(t)) : SubSeq(name, i + 1, i + Len(t)) = t

\* A string literal of the model, written as its characters.
S_ab == <<"a", "b">>
S_AB == <<"A", "B">>
S_c == <<"c">>
S_ab_c == <<"a", "b", " ", "c">>
S_b == <<"b">>
S_b1 == <<"b", "1">>
S_B_c == <<"B", " ", "c">>
S_c_1 == <<"c", " ", "1">>
S_abab == <<"a", "b", "a", "b">>
S_ba == <<"b", "a">>

\* ------------------------------------------------------------------ data

ITEM_TYPE_MERCARI == "ITEM_TYPE_MERCARI"

\* A detail record as returned by raw_item.full_item(): the fields that
\* _merge_full reads and the scores depend on.
Detail(seller, item_condition, created, shipping_payer) ==
    [seller |-> seller, item_condition |-> item_condition,
     created |-> created, shipping_payer |-> shipping_payer]

Seller(stars, sold) == Some([star_rating_score |-> stars, num_sell_items |-> sold])

\* What raw_item.full_item() does: returns a detail record, returns nothing,
\* or raises.
FullOk(detail) == [kind |-> "ok", item |-> Some(detail)]
FullNone == [kind |-> "none", item |-> Nothing]
FullRaise == [kind |-> "raise", item |-> Nothing]

\* A raw search result (mercapi SearchResultItem).
RawItem(id_, name, price, item_type, created, full) ==
    [id_ |-> id_, name |-> name, price |-> price, item_type |-> item_type,
     created |-> created, full |-> full]

\* The listings the marketplace can answer with.  Two listings share the
\* identifier m1 with different content; one has an empty identifier; the
\* item-type tag is the canonical one, another one, absent or empty.
Catalogue ==
    << RawItem("m1", S_ab_c, 6000, ITEM_TYPE_MERCARI, Some(1),
               FullOk(Detail(Seller(5, 10), Some([name |-> "new"]), Some(2),
                             Some([code |-> "buyer"]))))
     , RawItem("m1", S_b, 1000, "ITEM_TYPE_BEYOND", Nothing,
               FullOk(Detail(Nothing, Nothing, Nothing, Some([code |-> "seller"]))))
     , RawItem("m2", S_AB, 6000, None, Some(3),
               FullOk(Detail(Nothing, Nothing, Nothing, Some([code |-> "seller"]))))
     , RawItem("m3", S_b1, 25000, ITEM_TYPE_MERCARI, Some(4),
               FullOk(Detail(Nothing, Nothing, Nothing, Some([code |-> "seller"]))))
     , RawItem("", S_ab, 6000, ITEM_TYPE_MERCARI, Some(5),
               FullOk(Detail(Nothing, Nothing, Nothing, Nothing)))
     , RawItem("m4", S_ab_c, 2500, ITEM_TYPE_MERCARI, Some(6), FullRaise)
     , RawItem("m5", S_AB, 6000, "", Nothing, FullNone)
    >>

\* ProductShallow (models.py)
ProductShallow(id, name, price_jpy, item_type, created_at) ==
    [id |-> id, name |-> name, price_jpy |-> price_jpy, item_type |-> item_type,
     seller_rating |-> Nothing, seller_sales_count |-> Nothing,
     condition_label |-> Nothing, url |-> Nothing, created_at |-> created_at]

\* RecommendationService.__init__: the configuration of one service.
Service(max_shallow, max_candidates, max_return, min_seller_rating, max_price_jpy) ==
    [max_shallow |-> max_shallow, max_candidates |-> max_candidates,
     max_return |-> max_return, min_seller_rating |-> min_seller_rating,
     max_price_jpy |-> max_price_jpy]

\* ------------------------------------------------------------------ client

\* The outcome of one awaited call: a value, or an exception.
Returned(value) == [status |-> "done", value |-> value]
Raised == [status |-> "raised", value |-> Nothing]

\* MercapiClient.search: the marketplace's answer cut to `limit`, or its error.
search(answer, limit) ==
    IF answer.kind = "raise"
    THEN Raised
    ELSE Returned(SubSeq(answer.items, 1, Min(limit, Len(answer.items))))

\* An enrich_item of another AbstractMercariClient: it awaits the fetch and
\* handles nothing, so the error of the fetch propagates.
propagating_enrich_item(raw_item) ==
    IF raw_item.full.kind = "raise" THEN Raised ELSE Returned(raw_item.full.item)

\* enrich_item without its try/except.
enrich_item_uncaught(raw_item) ==
    IF raw_item.full.kind = "raise" THEN Raised ELSE Returned(raw_item.full.item)

\* MercapiClient.enrich_item: the detail, or None when the fetch returns
\* nothing or raises.
enrich_item(raw_item) ==
    IF raw_item.full.kind = "raise"
    THEN Returned(Nothing)
    ELSE Returned(raw_item.full.item)

\* ------------------------------------------------------------------ filters and scores

\* A parse that takes the seller's rating from the listing's detail.
_parse_shallow_rated(raw_item) ==
    [ProductShallow(raw_item.id_, raw_item.name, raw_item.price, raw_item.item_type,
                    raw_item.created)
        EXCEPT !.seller_rating =
            IF raw_item.full.kind = "ok" /\ raw_item.full.item[1].seller # Nothing
            THEN Some(raw_item.full.item[1].seller[1].star_rating_score)
            ELSE Nothing]

\* _parse_shallow
_parse_shallow(raw_item) ==
    ProductShallow(raw_item.id_, raw_item.name, raw_item.price, raw_item.item_type,
                   raw_item.created)

\* The floor with min in place of max.
min_reasonable_min(max_price) == Min(500, max_price \div 4)

\* min_reasonable = max(500, int(max_price_jpy * 0.25))
min_reasonable(max_price) == Max(500, max_price \div 4)

\* The hard filters without the item-type test.
_should_include_any_type(svc, p) ==
    /\ ~(Truthy(svc.max_price_jpy) /\ p.price_jpy > svc.max_price_jpy[1])
    /\ ~(/\ Truthy(svc.max_price_jpy)
         /\ svc.max_price_jpy[1] >= 10000
         /\ p.price_jpy < min_reasonable(svc.max_price_jpy[1]))
    /\ ~(OrZero(p.seller_rating) < svc.min_seller_rating)

\* _should_include: TRUE when the product passes every hard filter.
_should_include(svc, p) ==
    /\ ~(TruthyStr(p.item_type) /\ p.item_type # ITEM_TYPE_MERCARI)
    /\ ~(Truthy(svc.max_price_jpy) /\ p.price_jpy > svc.max_price_jpy[1])
    /\ ~(/\ Truthy(svc.max_price_jpy)
         /\ svc.max_price_jpy[1] >= 10000
         /\ p.price_jpy < min_reasonable(svc.max_price_jpy[1]))
    /\ ~(OrZero(p.seller_rating) < svc.min_seller_rating)

\* The relevance counting every occurrence of a token in the name.
_relevance_score_occurrences(tokens, p) ==
    IF tokens = <<>>
    THEN <<0, 1>>
    ELSE <<Cardinality({x \in (1..Len(tokens)) \X (0..Len(p.name)) :
                          /\ tokens[x[1]] # <<>>
                          /\ x[2] + Len(tokens[x[1]]) <= Len(p.name)
                          /\ SubSeq(lower(p.name), x[2] + 1, x[2] + Len(tokens[x[1]]))
                                = tokens[x[1]]}),
           Max(Len(tokens), 1)>>

\* _relevance_score as the fraction <<hits, number of tokens>>.
_relevance_score(tokens, p) ==
    IF tokens = <<>>
    THEN <<0, 1>>
    ELSE <<Cardinality({i \in 1..Len(tokens) :
                          tokens[i] # <<>> /\ Contains(lower(p.name), tokens[i])}),
           Max(Len(tokens), 1)>>

\* target = max(1.0, max_price_jpy * 0.7), in tenths of a yen.
target10(svc) == Max(10, 7 * svc.max_price_jpy[1])

\* _price_score as the fraction <<numerator, target10>>:
\* max(0, 1 - |price - target| / target).
_price_score(svc, p) ==
    IF ~Truthy(svc.max_price_jpy)
    THEN <<0, 1>>
    ELSE <<Max(0, target10(svc) - Abs(10 * p.price_jpy - target10(svc))), target10(svc)>>

\* The denominator shared by every score of one call:
\* 10 * (number of tokens) * target10.
ScoreDen(svc, tokens) ==
    10 * Max(Len(tokens), 1) * (IF Truthy(svc.max_price_jpy) THEN target10(svc) ELSE 1)

\* _shallow_score: relevance * 4.0 + rating * 1.2 + price_score * 1.3, as the
\* numerator over ScoreDen.
_shallow_score(svc, tokens, p) ==
    LET rel == _relevance_score(tokens, p)
        ps == _price_score(svc, p)
    IN  40 * rel[1] * ps[2]
        + 12 * OrZero(p.seller_rating) * rel[2] * ps[2]
        + 13 * ps[1] * rel[2]

\* The deep score without the shipping bonus.
_deep_score_no_bonus(svc, tokens, p) == _shallow_score(svc, tokens, p)

\* _deep_score: the shallow score plus 0.5 when shipping is included, as the
\* numerator over ScoreDen.
_deep_score(svc, tokens, p) ==
    _shallow_score(svc, tokens, p)
    + (IF p.shipping_fee_included THEN 5 * (ScoreDen(svc, tokens) \div 10) ELSE 0)

\* _merge_full: the shallow product updated from the detail record, as a
\* ProductFull.
_merge_full(raw, shallow) ==
    [id |-> shallow.id, name |-> shallow.name, price_jpy |-> shallow.price_jpy,
     item_type |-> shallow.item_type,
     seller_rating |->
        IF raw.seller # Nothing THEN Some(raw.seller[1].star_rating_score)
        ELSE shallow.seller_rating,
     seller_sales_count |->
        IF raw.seller # Nothing THEN Some(raw.seller[1].num_sell_items)
        ELSE shallow.seller_sales_count,
     condition_label |->
        IF raw.item_condition # Nothing THEN Some(raw.item_condition[1].name)
        ELSE shallow.condition_label,
     url |-> shallow.url,
     created_at |-> IF raw.created # Nothing THEN raw.created ELSE shallow.created_at,
     shipping_fee_included |->
        IF raw.shipping_payer # Nothing /\ TruthyStr(raw.shipping_payer[1].code)
        THEN raw.shipping_payer[1].code = "seller"
        ELSE FALSE]

\* ------------------------------------------------------------------ sorting

RECURSIVE insert_desc_unstable(_, _, _)
\* A descending sort that puts x before the elements with an equal key.
insert_desc_unstable(sorted, kx, x) ==
    IF sorted = <<>> \/ Head(sorted)[1] <= kx
    THEN <<(<<kx, x>>)>> \o sorted
    ELSE <<Head(sorted)>> \o insert_desc_unstable(Tail(sorted), kx, x)

RECURSIVE insert_desc(_, _, _)
\* Put x (with key kx) after every element whose key is >= kx: one step of a
\* stable descending sort.  `sorted` holds <<key, element>> pairs.
insert_desc(sorted, kx, x) ==
    IF sorted = <<>> \/ Head(sorted)[1] < kx
    THEN <<(<<kx, x>>)>> \o sorted
    ELSE <<Head(sorted)>> \o insert_desc(Tail(sorted), kx, x)

RECURSIVE sort_pairs(_, _)
sort_pairs(pairs, acc) ==
    IF pairs = <<>>
    THEN acc
    ELSE sort_pairs(Tail(pairs), insert_desc(acc, Head(pairs)[1], Head(pairs)[2]))

\* sorted(items, key=..., reverse=True), keys[i] being the key of items[i]:
\* descending by key, stable.
sorted_desc(items, keys) ==
    LET pairs == [i \in 1..Len(items) |-> <<keys[i], items[i]>>]
        out == sort_pairs(pairs, <<>>)
    IN  [i \in 1..Len(out) |-> out[i][2]]

\* items[:n]
Take(items, n) == SubSeq(items, 1, Min(n, Len(items)))

\* ------------------------------------------------------------------ pooling

RECURSIVE concat(_)
\* The items of every per-request result, request by request.
concat(results) ==
    IF results = <<>> THEN <<>> ELSE Head(results) \o concat(Tail(results))

RECURSIVE dedup_no_seen(_, _, _)
\* The pooling loop without the seen_ids test.
dedup_no_seen(items, seen_ids, raw) ==
    IF items = <<>>
    THEN raw
    ELSE IF ~TruthyStr(Head(items).id_)
         THEN dedup_no_seen(Tail(items), seen_ids, raw)
         ELSE dedup_no_seen(Tail(items), seen_ids, Append(raw, Head(items)))

RECURSIVE dedup(_, _, _)
\* The seen_ids loop: skip an item without identifier or with one seen before.
dedup(items, seen_ids, raw) ==
    IF items = <<>>
    THEN raw
    ELSE LET item == Head(items)
         IN  IF ~TruthyStr(item.id_) \/ item.id_ \in seen_ids
             THEN dedup(Tail(items), seen_ids, raw)
             ELSE dedup(Tail(items), seen_ids \cup {item.id_}, Append(raw, item))

\* Pool and deduplicate raw items across all candidates.
pool(per_request_results) == dedup(concat(per_request_results), {}, <<>>)

\* raw_by_id = {it.id_: it for it in raw_items}: a later item replaces an
\* earlier one with the same identifier.
raw_by_id(raw) ==
    [id \in {raw[i].id_ : i \in 1..Len(raw)} |->
        raw[CHOOSE i \in 1..Len(raw) :
                /\ raw[i].id_ = id
                /\ \A j \in 1..Len(raw) : raw[j].id_ = id => j <= i]]

\* self._current_tokens = tokenize(f"{user_query} {combined_query_text}")
current_tokens(requests, query) ==
    tokenize(query \o <<" ">> \o join([i \in 1..Len(requests) |-> requests[i].query_text]))

\* The shortlist taken from shallow_items instead of filtered.
shortlist_unfiltered(svc, tokens, raw) ==
    LET shallow_items == [i \in 1..Len(raw) |-> _parse_shallow(raw[i])]
        scored == sorted_desc(shallow_items,
                              [i \in 1..Len(shallow_items) |->
                                  _shallow_score(svc, tokens, shallow_items[i])])
    IN  Take(scored, svc.max_candidates)

\* The shortlist sorted by ascending score (sorted without reverse=True).
shortlist_ascending(svc, tokens, raw) ==
    LET shallow == [i \in 1..Len(raw) |-> _parse_shallow(raw[i])]
        filtered == SelectSeq(shallow, LAMBDA p : _should_include(svc, p))
        keys == [i \in 1..Len(filtered) |-> 0 - _shallow_score(svc, tokens, filtered[i])]
    IN  Take(sorted_desc(filtered, keys), svc.max_candidates)

\* Parse shallow items, filter, score and cut to max_candidates.
shortlist(svc, tokens, raw) ==
    LET shallow_items == [i \in 1..Len(raw) |-> _parse_shallow(raw[i])]
        filtered == SelectSeq(shallow_items, LAMBDA p : _should_include(svc, p))
        scored == sorted_desc(filtered,
                              [i \in 1..Len(filtered) |->
                                  _shallow_score(svc, tokens, filtered[i])])
    IN  Take(scored, svc.max_candidates)

\* The raw items of the candidates taken in the order of the pool.
enrich_args_pool_order(cands, raw) ==
    SelectSeq(raw, LAMBDA it : \E k \in 1..Len(cands) : cands[k].id = it.id_)

\* The raw items handed to client.enrich_item, in the order of the calls.
enrich_args(cands, raw) ==
    LET by_id == raw_by_id(raw)
        present == SelectSeq(cands, LAMBDA p : p.id \in DOMAIN by_id)
    IN  [k \in 1..Len(present) |-> by_id[present[k].id]]

RECURSIVE merge_all(_, _, _)
\* for raw, shallow in zip(enriched_raw, candidates): skip None, else merge.
merge_all(enriched_raw, cands, k) ==
    IF k > Min(Len(enriched_raw), Len(cands))
    THEN <<>>
    ELSE (IF enriched_raw[k] = Nothing
          THEN <<>>
          ELSE <<_merge_full(enriched_raw[k][1], cands[k])>>)
         \o merge_all(enriched_raw, cands, k + 1)

\* Final deep ranking: sorted by _deep_score, cut to max_return.
rank(svc, tokens, merged) ==
    LET ranked == sorted_desc(merged,
                              [i \in 1..Len(merged) |->
                                  _deep_score(svc, tokens, merged[i])])
    IN  Take(ranked, svc.max_return)

\* ------------------------------------------------------------------ asyncio.gather

\* A call that was issued and has not completed.
Running == [status |-> "running", value |-> Nothing]

\* gather(..., return_exceptions=False) resumes its caller with the first
\* exception as soon as one awaitable has raised.
gather_raises(tasks) == \E i \in 1..Len(tasks) : tasks[i].status = "raised"

\* A gather that resumes its caller once every call has settled, an
\* exception counting as a result (return_exceptions=True).
gather_returns_settled(tasks) == \A i \in 1..Len(tasks) : tasks[i].status # "running"

\* A gather that resumes its caller when the first call has returned.
gather_returns_first(tasks) == \E i \in 1..Len(tasks) : tasks[i].status = "done"

\* gather resumes its caller with the list of results when every awaitable
\* has returned.
gather_returns(tasks) == \A i \in 1..Len(tasks) : tasks[i].status = "done"

\* A gather that lists the results in the order the calls completed.
gather_results_as_completed(tasks, order) ==
    [k \in 1..Len(order) |-> tasks[order[k]].value]

\* The list gather returns: one result per awaitable, in the order of the
\* awaitables, whatever the order `order` in which they completed.
gather_results(tasks, order) == [i \in 1..Len(tasks) |-> tasks[i].value]

\* ------------------------------------------------------------------ inputs

\* The largest number of raw items the marketplace returns over all the
\* searches of one call.
MaxPool == 2

SearchRequest(query_text) == [query_text |-> query_text]

\* The calls of recommend: (search_requests, user_query).
Calls ==
    { [search_requests |-> <<>>, user_query |-> S_ab]
    , [search_requests |-> <<SearchRequest(S_ab)>>, user_query |-> S_AB]
    , [search_requests |-> <<SearchRequest(S_ab), SearchRequest(S_B_c)>>,
       user_query |-> S_c_1] }

\* The configurations of the service (with caps small enough to cut).
Configs ==
    { Service(3, 3, 3, 0, Nothing)
    , Service(3, 2, 1, 0, Nothing)
    , Service(1, 2, 1, 0, Some(0))
    , Service(3, 1, 2, 0, Some(20000))
    , Service(3, 2, 2, 0, Some(10001))
    , Service(3, 3, 3, 1, Nothing) }

\* The client: the mercapi adapter, or another AbstractMercariClient whose
\* enrich_item lets the error of the fetch propagate.
Setups ==
    {<<"MercapiClient", c>> : c \in Configs}
    \cup {<<"PropagatingClient", Service(3, 3, 3, 0, Nothing)>>}

ItemSeqs(n) == UNION {[1..l -> Range(Catalogue)] : l \in 0..n}

\* What the marketplace answers to one search: items, or an error.
AnswersUpTo(budget) ==
    {[kind |-> "raise", items |-> <<>>]}
    \cup {[kind |-> "items", items |-> s] : s \in ItemSeqs(budget)}

RECURSIVE AnswerLists(_, _)
\* One answer per request, with at most `budget` items in total.
AnswerLists(n, budget) ==
    IF n = 0
    THEN {<<>>}
    ELSE UNION {{<<a>> \o rest : rest \in AnswerLists(n - 1, budget - Len(a.items))} :
                a \in AnswersUpTo(budget)}

\* ------------------------------------------------------------------ state

VARIABLES
    client,           \* which client the service holds
    svc,              \* the service's configuration
    search_requests,  \* argument of recommend
    user_query,       \* argument of recommend
    answers,          \* the marketplace's answer to each search
    pc,               \* where recommend is: idle, searching, enriching, returned, raised
    search_tasks,     \* the search calls issued, with their outcome
    search_order,     \* the indices of the searches, in order of completion
    tokens,           \* self._current_tokens
    raw_items,        \* the deduplicated pool
    candidates,       \* the shallow survivors
    enrich_tasks,     \* the enrich_item calls issued, with their outcome
    enrich_order,     \* the indices of the enrichments, in order of completion
    enriched,         \* the merged ProductFull list
    result,           \* Nothing until recommend returns, then Some(list)
    probe,            \* one application of a pure function: its input and output
    history,          \* MercariChatAgent.history of the shared agent
    chat,             \* the calls of chat in progress: their position and local variables
    turns             \* the number of calls of chat so far

inputs == <<client, svc, search_requests, user_query, answers, probe>>

\* The state of the chat agent, untouched by a recommend call on its own.
chatvars == <<history, chat, turns>>

vars == <<client, svc, search_requests, user_query, answers, pc, search_tasks,
          search_order, tokens, raw_items, candidates, enrich_tasks, enrich_order,
          enriched, result, probe, history, chat, turns>>

\* No pure function is being probed.
NoProbe == [fn |-> "none", svc |-> Nothing, p |-> Nothing, out |-> Nothing]

\* The calls of chat that can be in progress on the shared agent at a time
\* (one per pending request of the HTTP server).
Sessions == {1, 2}

\* The local variables of a call of chat; here, of no call.
NoCall ==
    [pc |-> "idle", user_msg |-> Nothing, first_msg |-> Nothing, tc |-> 0,
     tool_msgs |-> <<>>, svc |-> Nothing, search_requests |-> <<>>,
     client_calls |-> <<>>, final_reply |-> Nothing, caught |-> FALSE]

\* MercariChatAgent.__init__: an empty history, and no call of chat yet.
ChatIdle ==
    /\ history = <<>>
    /\ chat = [s \in Sessions |-> NoCall]
    /\ turns = 0

Init ==
    /\ \E setup \in Setups, call \in Calls :
         /\ client = setup[1]
         /\ svc = setup[2]
         /\ search_requests = call.search_requests
         /\ user_query = call.user_query
         /\ answers \in AnswerLists(Len(call.search_requests), MaxPool)
    /\ pc = "idle"
    /\ search_tasks = <<>>
    /\ search_order = <<>>
    /\ tokens = <<>>
    /\ raw_items = <<>>
    /\ candidates = <<>>
    /\ enrich_tasks = <<>>
    /\ enrich_order = <<>>
    /\ enriched = <<>>
    /\ result = Nothing
    /\ probe = NoProbe
    /\ ChatIdle

\* client.enrich_item for the client the service holds.
client_enrich_item(raw_item) ==
    IF client = "MercapiClient"
    THEN enrich_item(raw_item)
    ELSE propagating_enrich_item(raw_item)

\* recommend rejecting an empty request list with an error.
Recommend_empty_raises ==
    /\ pc = "idle"
    /\ IF search_requests = <<>>
       THEN /\ pc' = "raised"
            /\ UNCHANGED search_tasks
       ELSE /\ pc' = "searching"
            /\ search_tasks' = [i \in 1..Len(search_requests) |-> Running]
    /\ UNCHANGED <<inputs, search_order, tokens, raw_items, candidates, enrich_tasks,
                   enrich_order, enriched, result>>
    /\ UNCHANGED chatvars

\* recommend is called: an empty request list returns [] at once; otherwise
\* one search per request is handed to gather.
Recommend ==
    /\ pc = "idle"
    /\ IF search_requests = <<>>
       THEN /\ pc' = "returned"
            /\ result' = Some(<<>>)
            /\ UNCHANGED search_tasks
       ELSE /\ pc' = "searching"
            /\ search_tasks' = [i \in 1..Len(search_requests) |-> Running]
            /\ UNCHANGED result
    /\ UNCHANGED <<inputs, search_order, tokens, raw_items, candidates, enrich_tasks,
                   enrich_order, enriched>>
    /\ UNCHANGED chatvars

\* One search completes: it returns its items or raises.  Nothing cancels a
\* search, so it may complete after recommend has raised.
SearchComplete(i) ==
    /\ i \in 1..Len(search_tasks)
    /\ search_tasks[i].status = "running"
    /\ search_tasks' = [search_tasks EXCEPT ![i] = search(answers[i], svc.max_shallow)]
    /\ search_order' = Append(search_order, i)
    /\ UNCHANGED <<inputs, pc, tokens, raw_items, candidates, enrich_tasks, enrich_order,
                   enriched, result>>
    /\ UNCHANGED chatvars

\* The first gather raises into recommend, which has no handler.
SearchRaise ==
    /\ pc = "searching"
    /\ gather_raises(search_tasks)
    /\ pc' = "raised"
    /\ UNCHANGED <<inputs, search_tasks, search_order, tokens, raw_items, candidates,
                   enrich_tasks, enrich_order, enriched, result>>
    /\ UNCHANGED chatvars

\* The first gather returns: pool, tokenize, filter, score, cut, and hand one
\* enrich_item call per candidate to the second gather.
PoolAndEnrich ==
    /\ pc = "searching"
    /\ gather_returns(search_tasks)
    /\ LET per_request_results == gather_results(search_tasks, search_order)
           raw == pool(per_request_results)
           toks == current_tokens(search_requests, user_query)
           cands == shortlist(svc, toks, raw)
       IN  /\ raw_items' = raw
           /\ tokens' = toks
           /\ candidates' = cands
           /\ enrich_tasks' = [k \in 1..Len(enrich_args(cands, raw)) |-> Running]
    /\ pc' = "enriching"
    /\ UNCHANGED <<inputs, search_tasks, search_order, enrich_order, enriched, result>>
    /\ UNCHANGED chatvars

\* One enrich_item call completes.
EnrichComplete(k) ==
    /\ k \in 1..Len(enrich_tasks)
    /\ enrich_tasks[k].status = "running"
    /\ enrich_tasks' =
          [enrich_tasks EXCEPT
              ![k] = client_enrich_item(enrich_args(candidates, raw_items)[k])]
    /\ enrich_order' = Append(enrich_order, k)
    /\ UNCHANGED <<inputs, pc, search_tasks, search_order, tokens, raw_items, candidates,
                   enriched, result>>
    /\ UNCHANGED chatvars

\* The second gather raises into recommend.
EnrichRaise ==
    /\ pc = "enriching"
    /\ gather_raises(enrich_tasks)
    /\ pc' = "raised"
    /\ UNCHANGED <<inputs, search_tasks, search_order, tokens, raw_items, candidates,
                   enrich_tasks, enrich_order, enriched, result>>
    /\ UNCHANGED chatvars

\* The second gather returns: merge, deep rank, cut, return.
MergeAndRank ==
    /\ pc = "enriching"
    /\ gather_returns(enrich_tasks)
    /\ LET enriched_raw == gather_results(enrich_tasks, enrich_order)
           merged == merge_all(enriched_raw, candidates, 1)
       IN  /\ enriched' = merged
           /\ result' = Some(rank(svc, tokens, merged))
    /\ pc' = "returned"
    /\ UNCHANGED <<inputs, search_tasks, search_order, tokens, raw_items, candidates,
                   enrich_tasks, enrich_order>>
    /\ UNCHANGED chatvars

Next ==
    \/ Recommend
    \/ \E i \in 1..MaxPool : SearchComplete(i)
    \/ SearchRaise
    \/ PoolAndEnrich
    \/ \E k \in 1..MaxPool : EnrichComplete(k)
    \/ EnrichRaise
    \/ MergeAndRank

Spec == Init /\ [][Next]_vars

\* ------------------------------------------------------------------ _should_include alone

\* The global max prices, prices, tags and ratings _should_include is applied to.
ProbeMaxPrices ==
    {Nothing} \cup {Some(m) : m \in {0, 1, 499, 2000, 9999, 10000, 10001, 10002, 10003, 20000}}

ProbePrices ==
    {0, 1, 499, 500, 1000, 2499, 2500, 2501, 4999, 5000, 6000, 9999, 10000, 20000, 20001}

ProbeTypes == {ITEM_TYPE_MERCARI, None, "", "ITEM_TYPE_BEYOND"}

ProbeServices ==
    {Service(3, 3, 3, r, m) : r \in {0, 1}, m \in ProbeMaxPrices}

ProbeProducts ==
    {[ProductShallow("m1", S_ab, price, type, Nothing) EXCEPT !.seller_rating = rating] :
        price \in ProbePrices, type \in ProbeTypes, rating \in {Nothing, Some(5)}}

InitFilter ==
    /\ ChatIdle
    /\ client = "MercapiClient"
    /\ svc = Service(3, 3, 3, 0, Nothing)
    /\ search_requests = <<>>
    /\ user_query = <<>>
    /\ answers = <<>>
    /\ pc = "idle"
    /\ search_tasks = <<>>
    /\ search_order = <<>>
    /\ tokens = <<>>
    /\ raw_items = <<>>
    /\ candidates = <<>>
    /\ enrich_tasks = <<>>
    /\ enrich_order = <<>>
    /\ enriched = <<>>
    /\ result = Nothing
    /\ \E s \in ProbeServices, p \in ProbeProducts :
         probe = [fn |-> "_should_include", svc |-> Some(s), p |-> Some(p), out |-> Nothing]

\* _should_include is applied to the probed product.
ShouldInclude ==
    /\ probe.fn = "_should_include"
    /\ probe.out = Nothing
    /\ probe' = [probe EXCEPT !.out = Some(_should_include(probe.svc[1], probe.p[1]))]
    /\ UNCHANGED <<client, svc, search_requests, user_query, answers, pc, search_tasks,
                   search_order, tokens, raw_items, candidates, enrich_tasks,
                   enrich_order, enriched, result>>
    /\ UNCHANGED chatvars

NextFilter == ShouldInclude

SpecFilter == InitFilter /\ [][NextFilter]_vars

\* ------------------------------------------------------------------ merge and rank alone

\* The pipeline variables, untouched by the applications of single functions.
pipeline ==
    <<client, svc, search_requests, user_query, answers, pc, search_tasks,
      search_order, tokens, raw_items, candidates, enrich_tasks, enrich_order,
      enriched, result>>

\* No recommend call is in progress.
PipelineIdle ==
    /\ client = "MercapiClient"
    /\ svc = Service(3, 3, 3, 0, Nothing)
    /\ search_requests = <<>>
    /\ user_query = <<>>
    /\ answers = <<>>
    /\ pc = "idle"
    /\ search_tasks = <<>>
    /\ search_order = <<>>
    /\ tokens = <<>>
    /\ raw_items = <<>>
    /\ candidates = <<>>
    /\ enrich_tasks = <<>>
    /\ enrich_order = <<>>
    /\ enriched = <<>>
    /\ result = Nothing

\* The detail records and shallow products the merge loop is applied to:
\* with and without a seller record, with the shipping payer absent, the
\* seller, the buyer, or without code.
RankDetails ==
    {Detail(seller, Nothing, Nothing, payer) :
        seller \in {Nothing, Seller(5, 1)},
        payer \in {Nothing, Some([code |-> "seller"]), Some([code |-> "buyer"]),
                   Some([code |-> ""])}}

RankShallows(id) ==
    {ProductShallow(id, name, price, ITEM_TYPE_MERCARI, Nothing) :
        name \in {S_ab, S_b1}, price \in {6000, 7000}}

RankServices ==
    {Service(3, 3, 2, 0, Nothing), Service(3, 3, 2, 0, Some(10000)),
     Service(3, 3, 1, 0, Some(10000))}

InitRank ==
    /\ PipelineIdle
    /\ ChatIdle
    /\ \E s \in RankServices, d1, d2 \in RankDetails,
          p1 \in RankShallows("m1"), p2 \in RankShallows("m2") :
         probe = [fn |-> "rank", svc |-> Some(s),
                  p |-> Some([tokens |-> tokenize(S_ab),
                              enriched_raw |-> <<d1, d2>>,
                              candidates |-> <<p1, p2>>]),
                  out |-> Nothing]

\* The merge loop and the final ranking of recommend, applied to the probed
\* detail records and candidates.
Rank ==
    /\ probe.fn = "rank"
    /\ probe.out = Nothing
    /\ LET merged == merge_all([k \in 1..2 |-> Some(probe.p[1].enriched_raw[k])],
                               probe.p[1].candidates, 1)
       IN  probe' = [probe EXCEPT !.out =
                        Some([enriched |-> merged,
                              ranked |-> rank(probe.svc[1], probe.p[1].tokens, merged)])]
    /\ UNCHANGED pipeline
    /\ UNCHANGED chatvars

NextRank == Rank

SpecRank == InitRank /\ [][NextRank]_vars

\* ------------------------------------------------------------------ _relevance_score alone

\* The longest text tokenize is applied to.
MaxText == 3

\* The texts tokens are taken from (letters of both cases and a separator)
\* and the product names they are looked up in.
RelevanceTexts == UNION {[1..n -> {"a", "b", "B", " "}] : n \in 0..MaxText}

RelevanceNames == {<<>>, S_ab, S_AB, S_abab, S_ba, S_b1}

InitRelevance ==
    /\ PipelineIdle
    /\ ChatIdle
    /\ \E text \in RelevanceTexts, name \in RelevanceNames :
         probe = [fn |-> "_relevance_score", svc |-> Nothing,
                  p |-> Some([text |-> text,
                              product |-> ProductShallow("m1", name, 6000,
                                                         ITEM_TYPE_MERCARI, Nothing)]),
                  out |-> Nothing]

\* The tokens of the probed text are set, and _relevance_score is applied to
\* the probed product.
RelevanceScore ==
    /\ probe.fn = "_relevance_score"
    /\ probe.out = Nothing
    /\ LET _current_tokens == tokenize(probe.p[1].text)
       IN  probe' = [probe EXCEPT !.out =
                        Some([tokens |-> _current_tokens,
                              relevance |-> _relevance_score(_current_tokens,
                                                             probe.p[1].product)])]
    /\ UNCHANGED pipeline
    /\ UNCHANGED chatvars

NextRelevance == RelevanceScore

SpecRelevance == InitRelevance /\ [][NextRelevance]_vars

\* ------------------------------------------------------------------ _price_score alone

\* The global max prices and the prices _price_score is applied to.
PriceScoreMaxPrices == {Nothing} \cup {Some(m) : m \in {0, 1, 2, 3, 10, 10000, 20000}}

PriceScorePrices ==
    {0, 1, 2, 3, 7, 14, 6999, 7000, 7001, 13999, 14000, 14001, 28000}

InitPriceScore ==
    /\ PipelineIdle
    /\ ChatIdle
    /\ \E m \in PriceScoreMaxPrices, price \in PriceScorePrices :
         probe = [fn |-> "_price_score", svc |-> Some(Service(3, 3, 3, 0, m)),
                  p |-> Some(ProductShallow("m1", S_ab, price, ITEM_TYPE_MERCARI, Nothing)),
                  out |-> Nothing]

\* _price_score is applied to the probed product.
PriceScore ==
    /\ probe.fn = "_price_score"
    /\ probe.out = Nothing
    /\ probe' = [probe EXCEPT !.out = Some(_price_score(probe.svc[1], probe.p[1]))]
    /\ UNCHANGED pipeline
    /\ UNCHANGED chatvars

NextPriceScore == PriceScore

SpecPriceScore == InitPriceScore /\ [][NextPriceScore]_vars

\* ------------------------------------------------------------------ chat agent: data

\* config.py
MAX_TURNS == 6
MAX_SHALLOW == 120
MAX_CANDIDATES == 60
MAX_RETURN == 10
MIN_SELLER_RATING == 0

\* The reply of the except branch of chat.
APOLOGY == "Sorry, something went wrong. Please try again in a moment."

RECURSIVE lstrip(_)
lstrip(s) == IF s # <<>> /\ Head(s) = " " THEN lstrip(Tail(s)) ELSE s

RECURSIVE rstrip(_)
rstrip(s) == IF s # <<>> /\ s[Len(s)] = " " THEN rstrip(SubSeq(s, 1, Len(s) - 1)) ELSE s

\* str.strip()
strip(s) == rstrip(lstrip(s))

\* The value under "keywords" of a candidate of the tool arguments: absent or
\* null, a number, or a string.
KwNone == [type |-> "NoneType", str |-> <<>>]
KwInt == [type |-> "int", str |-> <<>>]
KwStr(s) == [type |-> "str", str |-> s]

\* An element of the "candidates" list: a JSON object, or something else.
Candidate(keywords, max_price_jpy) ==
    [is_dict |-> TRUE, keywords |-> keywords, max_price_jpy |-> max_price_jpy]
NotADict == [is_dict |-> FALSE, keywords |-> KwNone, max_price_jpy |-> Nothing]

\* tc.function.arguments as json.loads reads it: not JSON, JSON that is not
\* an object, or an object with its "candidates" (empty when absent).
ArgsInvalid == [json |-> "invalid", candidates |-> <<>>]
ArgsList == [json |-> "list", candidates |-> <<>>]
Args(cands) == [json |-> "object", candidates |-> cands]

ToolCall(id, name, arguments) == [id |-> id, name |-> name, arguments |-> arguments]

\* What a chat completion call does: raises, or returns a message.
LLMRaises == [kind |-> "raise", role |-> "assistant", content |-> None, tool_calls |-> <<>>]
Message(content, tool_calls) ==
    [kind |-> "message", role |-> "assistant", content |-> content,
     tool_calls |-> tool_calls]

\* `content or ""`
OrEmpty(content) == IF TruthyStr(content) THEN content ELSE ""

\* message_to_dict: role and content, and the tool calls when there are any
\* (an empty tool_calls stands for the absent key).
message_to_dict(msg) ==
    [role |-> msg.role, content |-> msg.content, tool_calls |-> msg.tool_calls]

\* The user message of the n-th call of chat, and its history entry.
Digits == <<"1", "2", "3", "4", "5", "6", "7", "8", "9">>
UserQuery(n) == <<"a", "b", " ", Digits[n]>>
UserMsg(query) == [role |-> "user", content |-> query, tool_calls |-> <<>>]

\* serialize_product: the fields of the product, with the item URL filled in
\* for a canonical listing.
serialize_product(p) ==
    [p EXCEPT !.url =
        IF ~Truthy(p.url) /\ TruthyStr(p.id) /\ p.item_type = ITEM_TYPE_MERCARI
        THEN Some(<<"https://jp.mercari.com/item/", p.id>>)
        ELSE p.url]

\* The tool message appended for a get_recommendations call; content holds
\* the list that json.dumps encodes.
ToolMsg(tc, recs) ==
    [role |-> "tool", tool_call_id |-> tc.id, name |-> "get_recommendations",
     content |-> recs]

\* ------------------------------------------------------------------ chat agent: tool call

\* The minimum taken over the candidates that are searched only.
global_max_price_searched(candidates_payload) ==
    LET max_values == SelectSeq([i \in 1..Len(candidates_payload) |->
                                    IF /\ candidates_payload[i].keywords.type = "str"
                                       /\ strip(candidates_payload[i].keywords.str) # <<>>
                                    THEN candidates_payload[i].max_price_jpy
                                    ELSE Nothing],
                                LAMBDA v : v # Nothing)
    IN  IF max_values = <<>>
        THEN Nothing
        ELSE Some(CHOOSE m \in {max_values[i][1] : i \in 1..Len(max_values)} :
                    \A i \in 1..Len(max_values) : m <= max_values[i][1])

\* global_max_price = min(max_values) if max_values else None, with
\* max_values the non-null max_price_jpy of the candidates.
global_max_price(candidates_payload) ==
    LET max_values == SelectSeq([i \in 1..Len(candidates_payload) |->
                                    candidates_payload[i].max_price_jpy],
                                LAMBDA v : v # Nothing)
    IN  IF max_values = <<>>
        THEN Nothing
        ELSE Some(CHOOSE m \in {max_values[i][1] : i \in 1..Len(max_values)} :
                    \A i \in 1..Len(max_values) : m <= max_values[i][1])

\* `not isinstance(keywords, str) or not keywords.strip()`
malformed(cand) == cand.keywords.type # "str" \/ strip(cand.keywords.str) = <<>>

\* The search requests built without the validation of the keywords.
build_search_requests_unchecked(candidates_payload) ==
    [i \in 1..Len(candidates_payload) |->
        SearchRequest(strip(candidates_payload[i].keywords.str))]

\* The loop over candidates_payload: one SearchRequest per well-formed
\* candidate, with the trimmed keywords as query text.
build_search_requests(candidates_payload) ==
    LET kept == SelectSeq(candidates_payload, LAMBDA cand : ~malformed(cand))
    IN  [i \in 1..Len(kept) |-> SearchRequest(strip(kept[i].keywords.str))]

\* Where the loop over the tool calls stops: at the await on recommend, at
\* an exception, or at its end; with the tool messages gathered so far.
LoopStop(kind, tc, tool_msgs, service, requests) ==
    [kind |-> kind, tc |-> tc, tool_msgs |-> tool_msgs, svc |-> service,
     search_requests |-> requests]

RECURSIVE run_tool_calls(_, _, _)
\* The loop over first_msg.tool_calls from the i-th call on, up to the next
\* await on svc.recommend.
run_tool_calls(tool_calls, i, tool_msgs) ==
    IF i > Len(tool_calls)
    THEN LoopStop("end", i, tool_msgs, Nothing, <<>>)
    ELSE
      LET tc == tool_calls[i]
          args == IF tc.arguments.json = "invalid" THEN Args(<<>>) ELSE tc.arguments
          candidates_payload == args.candidates
      IN  IF tc.name # "get_recommendations"
          THEN run_tool_calls(tool_calls, i + 1, tool_msgs)
          ELSE IF args.json # "object"
          THEN LoopStop("raise", i, tool_msgs, Nothing, <<>>)
          ELSE IF candidates_payload = <<>>
          THEN run_tool_calls(tool_calls, i + 1, Append(tool_msgs, ToolMsg(tc, <<>>)))
          ELSE IF \E k \in 1..Len(candidates_payload) : ~candidates_payload[k].is_dict
          THEN LoopStop("raise", i, tool_msgs, Nothing, <<>>)
          ELSE
            LET service == Service(MAX_SHALLOW, MAX_CANDIDATES, MAX_RETURN,
                                   MIN_SELLER_RATING, global_max_price(candidates_payload))
                requests == build_search_requests(candidates_payload)
            IN  IF requests = <<>>
                THEN run_tool_calls(tool_calls, i + 1, Append(tool_msgs, ToolMsg(tc, <<>>)))
                ELSE LoopStop("await", i, tool_msgs, Some(service), requests)

\* What a call of recommend on the mercapi adapter comes to, given the
\* marketplace's answer to each search: the error of a search, or the ranked
\* list (which does not depend on the order of completion of the calls).
recommend_outcome(service, requests, query, answrs) ==
    IF requests = <<>>
    THEN Returned(<<>>)
    ELSE IF \E i \in 1..Len(requests) :
                search(answrs[i], service.max_shallow).status = "raised"
    THEN Raised
    ELSE
      LET per_request_results ==
              [i \in 1..Len(requests) |-> search(answrs[i], service.max_shallow).value]
          raw == pool(per_request_results)
          toks == current_tokens(requests, query)
          cands == shortlist(service, toks, raw)
          args == enrich_args(cands, raw)
          enriched_raw == [k \in 1..Len(args) |-> enrich_item(args[k]).value]
      IN  Returned(rank(service, toks, merge_all(enriched_raw, cands, 1)))

\* The history cut to its first 2 * MAX_TURNS entries.
trim_oldest(h) == SubSeq(h, 1, Min(Len(h), 2 * MAX_TURNS))

\* self.history[-2 * MAX_TURNS:]
trim(h) == SubSeq(h, Max(1, Len(h) - 2 * MAX_TURNS + 1), Len(h))

\* The end of chat with the tool messages kept in the history when an
\* exception was caught.
conclude_keeps_tools(hist, frame, loop, second) ==
    LET user_msg == frame.user_msg[1]
        raised == loop.kind = "raise" \/ (loop.tool_msgs # <<>> /\ second.kind = "raise")
        final_msg == IF loop.tool_msgs # <<>> THEN second ELSE frame.first_msg[1]
        entry == IF raised
                 THEN [role |-> "assistant", content |-> APOLOGY, tool_calls |-> <<>>]
                 ELSE message_to_dict(final_msg)
    IN  [frame |-> [frame EXCEPT !.pc = "returned",
                                 !.tool_msgs = loop.tool_msgs,
                                 !.final_reply =
                                     Some(IF raised THEN APOLOGY
                                          ELSE OrEmpty(final_msg.content)),
                                 !.caught = raised],
         history |-> trim(hist \o <<user_msg>>
                          \o (IF raised
                              THEN [k \in 1..Len(loop.tool_msgs) |->
                                      [role |-> "tool", content |-> None,
                                       tool_calls |-> <<>>]]
                              ELSE <<>>)
                          \o <<entry>>)]

\* The end of chat, from the presentation step on: the second completion
\* call when there are tool messages, the except branch when anything
\* raised, the pair appended to the history, the trim, and the return.
conclude(hist, frame, loop, second) ==
    LET user_msg == frame.user_msg[1]
        raised == loop.kind = "raise" \/ (loop.tool_msgs # <<>> /\ second.kind = "raise")
        final_msg == IF loop.tool_msgs # <<>> THEN second ELSE frame.first_msg[1]
        entry == IF raised
                 THEN [role |-> "assistant", content |-> APOLOGY, tool_calls |-> <<>>]
                 ELSE message_to_dict(final_msg)
    IN  [frame |-> [frame EXCEPT !.pc = "returned",
                                 !.tool_msgs = loop.tool_msgs,
                                 !.final_reply =
                                     Some(IF raised THEN APOLOGY
                                          ELSE OrEmpty(final_msg.content)),
                                 !.caught = raised],
         history |-> trim(hist \o <<user_msg, entry>>)]

\* chat goes on from where the loop over the tool calls stopped: it waits
\* for recommend, or runs to its return.
Proceed(s, frame, loop, seconds) ==
    IF loop.kind = "await"
    THEN /\ chat' = [chat EXCEPT ![s] =
                        [frame EXCEPT !.pc = "awaiting", !.tc = loop.tc,
                                      !.tool_msgs = loop.tool_msgs,
                                      !.svc = loop.svc,
                                      !.search_requests = loop.search_requests,
                                      !.client_calls = @ \o loop.search_requests]]
         /\ UNCHANGED history
    ELSE \E second \in seconds :
            LET done == conclude(history, frame, loop, second)
            IN  /\ chat' = [chat EXCEPT ![s] = done.frame]
                /\ history' = done.history

\* A call of chat, from its start to its first await on recommend, or to
\* its return when it never calls recommend.
Chat(s, firsts, seconds, cap) ==
    /\ chat[s].pc \in {"idle", "returned"}
    /\ turns < cap
    /\ turns' = turns + 1
    /\ \E first \in firsts :
         LET frame == [NoCall EXCEPT !.user_msg = Some(UserMsg(UserQuery(turns + 1))),
                                     !.first_msg = Some(first)]
         IN  Proceed(s, frame,
                     IF first.kind = "raise"
                     THEN LoopStop("raise", 0, <<>>, Nothing, <<>>)
                     ELSE run_tool_calls(first.tool_calls, 1, <<>>),
                     seconds)
    /\ UNCHANGED <<pipeline, probe>>

\* recommend completes, and chat resumes after its await: it goes on to the
\* next await, or to its return.
ChatResume(s, answer_set, seconds) ==
    /\ chat[s].pc = "awaiting"
    /\ \E answrs \in [1..Len(chat[s].search_requests) -> answer_set] :
         LET frame == chat[s]
             tool_calls == frame.first_msg[1].tool_calls
             products == recommend_outcome(frame.svc[1], frame.search_requests,
                                           frame.user_msg[1].content, answrs)
             recs == [k \in 1..Len(products.value) |-> serialize_product(products.value[k])]
         IN  Proceed(s, frame,
                     IF products.status = "raised"
                     THEN LoopStop("raise", frame.tc, frame.tool_msgs, Nothing, <<>>)
                     ELSE run_tool_calls(tool_calls, frame.tc + 1,
                                         Append(frame.tool_msgs,
                                                ToolMsg(tool_calls[frame.tc], recs))),
                     seconds)
    /\ UNCHANGED <<pipeline, probe, turns>>

\* ------------------------------------------------------------------ chat agent: turns

\* The number of calls of chat in a run with the full range of tool
\* arguments, and in a run long enough for the history to be trimmed.
MaxChatTurns == 2
MaxHistoryTurns == 7

S_sp_ab_sp == <<" ", "a", "b", " ">>
S_sp == <<" ">>

\* The "candidates" lists of the tool arguments: well-formed and malformed
\* keywords, with and without max prices, and an element that is no object.
Payloads ==
    { <<Candidate(KwStr(S_sp_ab_sp), Nothing), Candidate(KwStr(S_B_c), Some(20000))>>
    , <<Candidate(KwStr(S_ab), Some(20000)), Candidate(KwNone, Some(10001)),
        Candidate(KwStr(S_sp), Nothing), Candidate(KwInt, Nothing)>>
    , <<Candidate(KwStr(S_sp), Some(5000)), Candidate(KwNone, Nothing)>>
    , <<Candidate(KwStr(S_ab), Nothing)>>
    , <<Candidate(KwStr(S_ab), Some(0)), Candidate(KwStr(S_c), Some(20000))>>
    , <<Candidate(KwStr(S_ab), Nothing), NotADict>>
    , <<Candidate(KwStr(S_ab), Nothing), Candidate(KwStr(S_sp), Some(20000))>> }

\* What the first completion call can do: raise, reply directly, call an
\* unknown tool, or call get_recommendations with arguments of every kind,
\* once or twice.
ChatFirsts ==
    { LLMRaises
    , Message("hello", <<>>)
    , Message(None, <<ToolCall("t1", "other_tool", ArgsList)>>)
    , Message(None, <<ToolCall("t1", "get_recommendations", ArgsInvalid)>>)
    , Message(None, <<ToolCall("t1", "get_recommendations", ArgsList)>>)
    , Message("hello", <<ToolCall("t1", "get_recommendations",
                                  Args(<<Candidate(KwStr(S_ab), Nothing)>>)),
                         ToolCall("t2", "get_recommendations",
                                  Args(<<Candidate(KwStr(S_c), Some(20000))>>))>>) }
    \cup {Message(None, <<ToolCall("t1", "get_recommendations", Args(p))>>) :
            p \in Payloads}

\* What the second completion call can do.
ChatSeconds == {LLMRaises, Message("final", <<>>)}

\* What the marketplace answers to a search of a chat turn.
ChatAnswerSet ==
    { [kind |-> "raise", items |-> <<>>]
    , [kind |-> "items", items |-> <<Catalogue[1], Catalogue[4]>>]
    , [kind |-> "items", items |-> <<Catalogue[3], Catalogue[6]>>] }

InitChat ==
    /\ PipelineIdle
    /\ probe = NoProbe
    /\ ChatIdle

NextChat ==
    \E s \in Sessions :
        \/ Chat(s, ChatFirsts, ChatSeconds, MaxChatTurns)
        \/ ChatResume(s, ChatAnswerSet, ChatSeconds)

SpecChat == InitChat /\ [][NextChat]_vars

\* The completions and answers of a long run: every turn calls the tool for
\* one search, which returns nothing or raises.
HistoryFirsts ==
    { Message(None, <<ToolCall("t1", "get_recommendations",
                               Args(<<Candidate(KwStr(S_ab), Nothing)>>))>>) }

HistorySeconds == {Message("final", <<>>)}

HistoryAnswerSet ==
    { [kind |-> "raise", items |-> <<>>]
    , [kind |-> "items", items |-> <<>>] }

NextHistory ==
    \E s \in Sessions :
        \/ Chat(s, HistoryFirsts, HistorySeconds, MaxHistoryTurns)
        \/ ChatResume(s, HistoryAnswerSet, HistorySeconds)

SpecHistory == InitChat /\ [][NextHistory]_vars

\* ------------------------------------------------------------------ properties

\* Some search of the call has raised.
SearchRaised == \E i \in 1..Len(search_tasks) : search_tasks[i].status = "raised"

\* Every search of the call has returned.
SearchesDone == \A i \in 1..Len(search_tasks) : search_tasks[i].status = "done"

\* The synchronous block after the first gather has run.
Pooled ==
    /\ search_requests # <<>>
    /\ pc \in {"enriching", "returned"} \/ (pc = "raised" /\ ~SearchRaised)

\* Every item the searches returned, request by request.
AllReturned == concat([i \in 1..Len(search_tasks) |-> search_tasks[i].value])

IdsOf(items) == {items[i].id_ : i \in 1..Len(items)}

\* The position of the first item with this identifier.
FirstIndex(items, id) ==
    CHOOSE i \in 1..Len(items) :
        items[i].id_ = id /\ \A j \in 1..(i - 1) : items[j].id_ # id

\* The raw item of the pool with this identifier.
RawOf(id) == raw_items[CHOOSE i \in 1..Len(raw_items) : raw_items[i].id_ = id]

\* The fetch of the detail of this candidate returns a detail record.
EnrichOk(p) == RawOf(p.id).full.kind = "ok"

\* The candidates whose enrichment succeeds, in candidate order.
Succeeded == SelectSeq(candidates, EnrichOk)

ProductIds(products) == [k \in 1..Len(products) |-> products[k].id]

\* C1. Fail-fast: once a search has raised, recommend has raised or is about
\* to (the raise does not wait for the other searches); it never returns, no
\* pool, shortlist or ranking is built from the other searches' results and
\* no enrich_item call is issued.
C1_FailFast ==
    SearchRaised =>
        /\ pc = "raised" \/ (pc = "searching" /\ ENABLED SearchRaise)
        /\ result = Nothing
        /\ raw_items = <<>>
        /\ candidates = <<>>
        /\ enriched = <<>>
        /\ enrich_tasks = <<>>

\* recommend has raised on one search while another had returned items.
C1_Witness ==
    /\ pc = "raised"
    /\ SearchRaised
    /\ \E j \in 1..Len(search_tasks) :
         search_tasks[j].status = "done" /\ search_tasks[j].value # <<>>

\* C2. Enrichment isolation (the mercapi adapter): recommend raises only for
\* a failed search; when it returns, the merged list is exactly the
\* candidates whose detail fetch succeeded, in candidate order, no failed
\* candidate is in the result, and the result is drawn from the succeeded
\* ones up to the return cap.
C2_EnrichmentIsolation ==
    client = "MercapiClient" =>
        /\ pc = "raised" => SearchRaised
        /\ (pc = "returned" /\ search_requests # <<>>) =>
              /\ ProductIds(enriched) = ProductIds(Succeeded)
              /\ \A k \in 1..Len(candidates) :
                    ~EnrichOk(candidates[k]) =>
                        \A j \in 1..Len(result[1]) : result[1][j].id # candidates[k].id
              /\ Range(ProductIds(result[1])) \subseteq Range(ProductIds(Succeeded))
              /\ Len(result[1]) = Min(svc.max_return, Len(Succeeded))

\* recommend has returned a sibling of a candidate whose fetch raised.
C2_Witness ==
    /\ client = "MercapiClient"
    /\ pc = "returned"
    /\ Len(candidates) = 2
    /\ \E k \in 1..Len(candidates) : RawOf(candidates[k].id).full.kind = "raise"
    /\ Len(result[1]) = 1

\* The pool holds each identifier of `ids` once, keeps for it the first item
\* returned with it, and lists the items in first-seen order.
DedupOver(ids) ==
    /\ \A id \in ids : Cardinality({i \in 1..Len(raw_items) : raw_items[i].id_ = id}) = 1
    /\ \A i \in 1..Len(raw_items) :
          /\ raw_items[i].id_ \in IdsOf(AllReturned)
          /\ raw_items[i] = AllReturned[FirstIndex(AllReturned, raw_items[i].id_)]
    /\ \A i, j \in 1..Len(raw_items) :
          i < j => FirstIndex(AllReturned, raw_items[i].id_)
                     < FirstIndex(AllReturned, raw_items[j].id_)

\* C3 as stated: the pool holds every identifier the searches returned,
\* the empty one included, exactly once.
C3_DedupEveryIdentifier == Pooled => DedupOver(IdsOf(AllReturned))

\* C3. Deduplication: the pool holds each non-empty identifier the searches
\* returned exactly once, with its first occurrence in candidate order then
\* within-candidate order, in first-seen order; an item without identifier
\* is not pooled.
C3_Dedup ==
    Pooled =>
        /\ DedupOver({id \in IdsOf(AllReturned) : TruthyStr(id)})
        /\ \A i \in 1..Len(raw_items) : TruthyStr(raw_items[i].id_)

\* Two searches returned different items under one identifier.
C3_Witness ==
    /\ Pooled
    /\ Len(search_tasks) = 2
    /\ search_tasks[1].value # <<>>
    /\ search_tasks[2].value # <<>>
    /\ search_tasks[1].value[1].id_ = search_tasks[2].value[1].id_
    /\ search_tasks[1].value[1] # search_tasks[2].value[1]
    /\ Len(raw_items) = 1

\* C4. Empty input: recommend([]) returns [] and issues no search and no
\* enrich_item call.
C4_EmptyInput ==
    (search_requests = <<>> /\ pc # "idle") =>
        /\ pc = "returned"
        /\ result = Some(<<>>)
        /\ search_tasks = <<>>
        /\ enrich_tasks = <<>>

\* recommend([]) has returned.
C4_Witness == search_requests = <<>> /\ pc = "returned" /\ probe = NoProbe

\* C5. Barriers: an enrich_item call exists, or the pool is built, only when
\* every search has returned; the merged list and the result exist only when
\* no issued enrich_item call is still running.
C5_Barriers ==
    /\ (enrich_tasks # <<>> \/ pc = "enriching" \/ raw_items # <<>>) => SearchesDone
    /\ (result # Nothing \/ enriched # <<>>) =>
          \A k \in 1..Len(enrich_tasks) : enrich_tasks[k].status # "running"

\* recommend has returned after two searches and two enrichments.
C5_Witness ==
    /\ pc = "returned"
    /\ Len(search_tasks) = 2
    /\ Len(enrich_tasks) = 2

\* recommend run with the calls made one after the other, in request order
\* and in candidate order.
sequential_result ==
    LET per_request_results ==
            [i \in 1..Len(search_requests) |-> search(answers[i], svc.max_shallow).value]
        raw == pool(per_request_results)
        toks == current_tokens(search_requests, user_query)
        cands == shortlist(svc, toks, raw)
        args == enrich_args(cands, raw)
        enriched_raw == [k \in 1..Len(args) |-> client_enrich_item(args[k]).value]
    IN  rank(svc, toks, merge_all(enriched_raw, cands, 1))

\* C6. Order independence: the list recommend returns is the one the
\* requests, the configuration and the client's answers determine, whatever
\* the order in which the searches and the enrichments completed.
C6_OrderIndependence ==
    (pc = "returned" /\ search_requests # <<>>) => result = Some(sequential_result)

\* recommend has returned two items after the second search and the second
\* enrichment completed first.
C6_Witness ==
    /\ pc = "returned"
    /\ search_order = <<2, 1>>
    /\ enrich_order = <<2, 1>>
    /\ search_tasks[1].value # <<>>
    /\ search_tasks[2].value # <<>>
    /\ Len(result[1]) = 2

\* The deep score of a merged product in this call.
DeepScore(p) == _deep_score(svc, tokens, p)

\* The position of a product in the merge order (the shallow-score order).
CandidatePos(id) == CHOOSE k \in 1..Len(candidates) : candidates[k].id = id

\* a is ranked ahead of b: a higher deep score, or the same one and an
\* earlier place in the merge order.
Ahead(a, b) ==
    \/ DeepScore(a) > DeepScore(b)
    \/ DeepScore(a) = DeepScore(b) /\ CandidatePos(a.id) < CandidatePos(b.id)

\* C7. Final selection: the returned list is a list (never null) of at most
\* max_return items, in non-increasing deep score with equal scores in merge
\* order, and it is the head of that ordering of all the merged products.
C7_FinalSelection ==
    pc = "returned" =>
        /\ result # Nothing
        /\ Len(result[1]) <= svc.max_return
        /\ Len(result[1]) = Min(svc.max_return, Len(enriched))
        /\ \A j \in 1..Len(result[1]) : result[1][j] \in Range(enriched)
        /\ \A j, k \in 1..Len(result[1]) : j < k => Ahead(result[1][j], result[1][k])
        /\ \A e \in Range(enriched) \ Range(result[1]) :
              \A j \in 1..Len(result[1]) : Ahead(result[1][j], e)

\* recommend has returned two items with the same deep score.
C7_Witness ==
    /\ pc = "returned"
    /\ Len(result[1]) = 2
    /\ DeepScore(result[1][1]) = DeepScore(result[1][2])

\* The shallow item parsed from the raw item at position i of the pool
\* passes the hard filters.
Survives(i) == _should_include(svc, _parse_shallow(raw_items[i]))

ShallowScoreAt(i) == _shallow_score(svc, tokens, _parse_shallow(raw_items[i]))

\* Fewer than max_candidates survivors are ahead of the one at position i in
\* the shallow order (score, then pooled order).
WithinCut(i) ==
    Cardinality({t \in 1..Len(raw_items) :
                    /\ Survives(t)
                    /\ \/ ShallowScoreAt(t) > ShallowScoreAt(i)
                       \/ ShallowScoreAt(t) = ShallowScoreAt(i) /\ t < i})
        < svc.max_candidates

\* C8. Output correspondence: the returned items have distinct identifiers,
\* and each has the identifier of exactly one item of the pool, whose shallow
\* item passed the hard filters and the candidate-cap cut and whose detail
\* fetch succeeded.
C8_OutputCorrespondence ==
    pc = "returned" =>
        /\ \A j, k \in 1..Len(result[1]) : j < k => result[1][j].id # result[1][k].id
        /\ \A j \in 1..Len(result[1]) :
              LET src == {i \in 1..Len(raw_items) : raw_items[i].id_ = result[1][j].id}
              IN  /\ Cardinality(src) = 1
                  /\ \A i \in src :
                        /\ Survives(i)
                        /\ WithinCut(i)
                        /\ raw_items[i].full.kind = "ok"

\* recommend has returned one of two pooled items.
C8_Witness ==
    /\ pc = "returned"
    /\ Len(raw_items) = 2
    /\ Len(result[1]) = 1

\* The global max price and the price of the probed application.
ProbeMax == probe.svc[1].max_price_jpy
ProbePrice == probe.p[1].price_jpy

\* The probed product passes the item-type and rating filters and is not
\* above a configured ceiling.
ProbeOtherwiseKept ==
    /\ ~TruthyStr(probe.p[1].item_type) \/ probe.p[1].item_type = ITEM_TYPE_MERCARI
    /\ OrZero(probe.p[1].seller_rating) >= probe.svc[1].min_seller_rating
    /\ ProbeMax = Nothing \/ ProbePrice <= ProbeMax[1]

\* With the global max price unset or below 10000 no floor applies: a
\* product that passes the other filters is kept however low its price.
NoFloorBelow10000 ==
    (ProbeMax = Nothing \/ ProbeMax[1] < 10000) =>
        (ProbeOtherwiseKept => probe.out = Some(TRUE))

\* C9 as stated: with M >= 10000 every price below max(500, 0.25 * M), the
\* real number, is dropped (p < 0.25 * M iff 4 * p < M).
C9_PriceFloorReal ==
    probe.out # Nothing =>
        /\ (ProbeMax # Nothing /\ ProbeMax[1] >= 10000
              /\ (ProbePrice < 500 \/ 4 * ProbePrice < ProbeMax[1]))
           => probe.out = Some(FALSE)
        /\ NoFloorBelow10000

\* C9. Price floor: with M >= 10000 the floor is max(500, 0.25 * M rounded
\* down to an integer): a price below it is dropped, a price from the floor
\* up to M is kept by the price filters; with M unset or below 10000 no
\* floor applies.
C9_PriceFloor ==
    probe.out # Nothing =>
        /\ (ProbeMax # Nothing /\ ProbeMax[1] >= 10000) =>
              /\ ProbePrice < Max(500, ProbeMax[1] \div 4) => probe.out = Some(FALSE)
              /\ (ProbePrice >= Max(500, ProbeMax[1] \div 4) /\ ProbeOtherwiseKept)
                    => probe.out = Some(TRUE)
        /\ NoFloorBelow10000

\* _should_include has dropped a product priced 1000 under M = 20000.
C9_Witness ==
    /\ ProbeMax = Some(20000)
    /\ ProbePrice = 1000
    /\ ProbeOtherwiseKept
    /\ probe.out = Some(FALSE)

\* C10. Price ceiling: with any non-null global max price, no candidate and
\* no returned item is priced above it.
C10_PriceCeiling ==
    svc.max_price_jpy # Nothing =>
        /\ \A k \in 1..Len(candidates) : candidates[k].price_jpy <= svc.max_price_jpy[1]
        /\ pc = "returned" =>
              \A j \in 1..Len(result[1]) : result[1][j].price_jpy <= svc.max_price_jpy[1]

\* The item-type tag of the raw item at position i of the pool.
TagAt(i) == raw_items[i].item_type

\* The item at position i of the pool was shortlisted: it was scored, and an
\* enrich_item call was issued for it.
Shortlisted(i) == \E k \in 1..Len(candidates) : candidates[k].id = raw_items[i].id_

\* The item at position i of the pool is in the returned list.
ReturnedAt(i) ==
    pc = "returned" /\ \E j \in 1..Len(result[1]) : result[1][j].id = raw_items[i].id_

\* C11 as stated: only an item tagged ITEM_TYPE_MERCARI is shortlisted or
\* returned; an item with an absent or empty tag is dropped like any other.
C11_ItemTypeOnly ==
    Pooled =>
        \A i \in 1..Len(raw_items) :
            TagAt(i) # ITEM_TYPE_MERCARI => ~Shortlisted(i) /\ ~ReturnedAt(i)

\* C11. Item-type filter: an item with a non-empty tag other than
\* ITEM_TYPE_MERCARI is dropped: it is never shortlisted (scored, enriched)
\* or returned, and every shortlisted or returned item has the canonical
\* tag, no tag or an empty one; an item with an absent or empty tag is
\* treated by the hard filters as one tagged ITEM_TYPE_MERCARI.
C11_ItemTypeFilter ==
    Pooled =>
        /\ \A i \in 1..Len(raw_items) :
              /\ (TruthyStr(TagAt(i)) /\ TagAt(i) # ITEM_TYPE_MERCARI)
                    => ~Shortlisted(i) /\ ~ReturnedAt(i)
              /\ ~TruthyStr(TagAt(i)) =>
                    (Survives(i) <=>
                        _should_include(svc, [_parse_shallow(raw_items[i])
                                                EXCEPT !.item_type = ITEM_TYPE_MERCARI]))
        /\ \A k \in 1..Len(candidates) :
              candidates[k].item_type \in {ITEM_TYPE_MERCARI, None, ""}
        /\ Len(enrich_tasks) = Len(candidates)

\* The pool held an item tagged ITEM_TYPE_BEYOND and an untagged one;
\* recommend has returned the untagged one alone.
C11_Witness ==
    /\ pc = "returned"
    /\ Len(raw_items) = 2
    /\ \E i \in 1..2 : TagAt(i) = "ITEM_TYPE_BEYOND"
    /\ \E i \in 1..2 : TagAt(i) = None /\ ReturnedAt(i)
    /\ Len(result[1]) = 1

\* The position in the pool of the item with this identifier.
PoolPos(id) == CHOOSE i \in 1..Len(raw_items) : raw_items[i].id_ = id

\* C12. Shallow selection: the shortlist sent to enrichment is made of
\* filter survivors, holds min(max_candidates, number of survivors) of them,
\* is in non-increasing shallow score with equal scores in pooled order, and
\* every survivor left out is behind every shortlisted one in that order;
\* one enrich_item call is issued per shortlisted item, so at most
\* max_candidates calls.
C12_ShallowSelection ==
    Pooled =>
        /\ \A k \in 1..Len(candidates) :
              /\ candidates[k] = _parse_shallow(RawOf(candidates[k].id))
              /\ Survives(PoolPos(candidates[k].id))
              /\ WithinCut(PoolPos(candidates[k].id))
        /\ Len(candidates) =
              Min(svc.max_candidates, Cardinality({i \in 1..Len(raw_items) : Survives(i)}))
        /\ \A j, k \in 1..Len(candidates) :
              j < k =>
                LET pj == PoolPos(candidates[j].id)
                    pk == PoolPos(candidates[k].id)
                IN  \/ ShallowScoreAt(pj) > ShallowScoreAt(pk)
                    \/ ShallowScoreAt(pj) = ShallowScoreAt(pk) /\ pj < pk
        /\ Len(enrich_tasks) = Len(candidates)
        /\ Len(enrich_tasks) <= svc.max_candidates

\* Two survivors with the same shallow score under a candidate cap of 1: the
\* one pooled first is the only one sent to enrichment.
C12_Witness ==
    /\ Pooled
    /\ svc.max_candidates = 1
    /\ Len(raw_items) = 2
    /\ Survives(1) /\ Survives(2)
    /\ ShallowScoreAt(1) = ShallowScoreAt(2)
    /\ ProductIds(candidates) = <<raw_items[1].id_>>
    /\ Len(enrich_tasks) = 1

\* The merged products and the ranking of the probed application of the
\* merge loop and final ranking, and the base (section 4.3) score of a merged
\* product.
RankMerged == probe.out[1].enriched
Ranked == probe.out[1].ranked
BaseScore(m) == _shallow_score(probe.svc[1], probe.p[1].tokens, m)

\* C13. Shipping bonus: shipping_fee_included is true exactly when the
\* detail record names the seller as shipping payer; the deep score of a
\* merged product is its base score on the merged fields, plus 0.5 (half of
\* ScoreDen) exactly when shipping_fee_included; and of two merged products
\* with equal base score, one with shipping included and one without, the
\* one with shipping included is ranked first, whichever was merged first.
C13_ShippingBonus ==
    (probe.fn = "rank" /\ probe.out # Nothing) =>
        /\ Len(RankMerged) = 2
        /\ \A k \in 1..2 :
              /\ RankMerged[k].shipping_fee_included
                    = (probe.p[1].enriched_raw[k].shipping_payer = Some([code |-> "seller"]))
              /\ 2 * (_deep_score(probe.svc[1], probe.p[1].tokens, RankMerged[k])
                        - BaseScore(RankMerged[k]))
                    = IF RankMerged[k].shipping_fee_included
                      THEN ScoreDen(probe.svc[1], probe.p[1].tokens)
                      ELSE 0
        /\ \A i, j \in 1..2 :
              (/\ RankMerged[i].shipping_fee_included
               /\ ~RankMerged[j].shipping_fee_included
               /\ BaseScore(RankMerged[i]) = BaseScore(RankMerged[j]))
              => /\ Ranked[1] = RankMerged[i]
                 /\ Len(Ranked) = 2 => Ranked[2] = RankMerged[j]

\* Two merged products with equal base score, the one merged second with
\* shipping included: it has been ranked first.
C13_Witness ==
    /\ probe.fn = "rank"
    /\ probe.out # Nothing
    /\ ~RankMerged[1].shipping_fee_included
    /\ RankMerged[2].shipping_fee_included
    /\ RankMerged[2].seller_rating = Some(5)
    /\ BaseScore(RankMerged[1]) = BaseScore(RankMerged[2])
    /\ Ranked = <<RankMerged[2], RankMerged[1]>>

\* The tokens and the relevance <<hits, denominator>> of the probed
\* application of _relevance_score.
RelevanceTokens == probe.out[1].tokens
Relevance == probe.out[1].relevance

\* C14. Relevance bounds: the relevance is hits / denominator with
\* 0 <= hits <= denominator, so it lies in [0, 1]; it is 0 for the empty
\* token set; otherwise the denominator is the number of distinct tokens and
\* hits the number of them that occur in the lowercased name.
C14_RelevanceBounds ==
    (probe.fn = "_relevance_score" /\ probe.out # Nothing) =>
        /\ 0 <= Relevance[1]
        /\ Relevance[1] <= Relevance[2]
        /\ Relevance[2] >= 1
        /\ RelevanceTokens = <<>> => Relevance[1] = 0
        /\ RelevanceTokens # <<>> =>
              /\ Relevance[2] = Cardinality(Range(RelevanceTokens))
              /\ Relevance[1] =
                    Cardinality({t \in Range(RelevanceTokens) :
                                    Contains(lower(probe.p[1].product.name), t)})

\* The one token of the text occurs twice in the name: it counts once and
\* the relevance is 1.
C14_Witness ==
    /\ probe.fn = "_relevance_score"
    /\ probe.out # Nothing
    /\ probe.p[1].product.name = S_abab
    /\ RelevanceTokens = <<S_ab>>
    /\ Relevance = <<1, 1>>

\* The target of the claim's formula for a max price m, in tenths of a yen:
\* max(1, 0.7 * m).
ClaimedTarget10(m) == Max(10, 7 * m)

\* C15. Price score shape: with no global max price the price score is 0;
\* with a global max price M and target = max(1, 0.7 * M) it is
\* max(0, 1 - |price - target| / target), which lies in [0, 1], is 1 exactly
\* when price = target and is 0 for every price >= 2 * target.
C15_PriceScoreShape ==
    (probe.fn = "_price_score" /\ probe.out # Nothing) =>
        LET score == probe.out[1]
            t == ClaimedTarget10(ProbeMax[1])
            expected == Max(0, t - Abs(10 * ProbePrice - t))
        IN  /\ ProbeMax = Nothing => score[1] = 0
            /\ 0 <= score[1] /\ score[1] <= score[2] /\ score[2] >= 1
            /\ ProbeMax # Nothing =>
                  /\ IF expected = 0 THEN score[1] = 0 ELSE score = <<expected, t>>
                  /\ score[1] = score[2] <=> 10 * ProbePrice = t
                  /\ 10 * ProbePrice >= 2 * t => score[1] = 0

\* A search, or an enrich_item call, of the recommend call has not completed.
SearchHangs == \E i \in 1..Len(search_tasks) : search_tasks[i].status = "running"
EnrichHangs == \E k \in 1..Len(enrich_tasks) : enrich_tasks[k].status = "running"

\* An enrich_item call of the recommend call has raised.
EnrichRaised == \E k \in 1..Len(enrich_tasks) : enrich_tasks[k].status = "raised"

\* C18 as stated: as long as a search or an enrich_item call has not
\* completed, recommend has neither returned nor raised, whatever the other
\* calls did.  (A call that never completes is one that is running in every
\* state from its issue on, and no step is ever forced on a running call, so
\* a state with a running call and a completed recommend is the start of a
\* run in which that call never completes.)
C18_HangBlocksCompletion ==
    (SearchHangs \/ EnrichHangs) => pc \notin {"returned", "raised"}

\* C18. No timeout: as long as a search or an enrich_item call has not
\* completed, recommend has not returned and has no result; it has raised
\* only if another call of the same fan-out has raised (a search while a
\* search hangs, an enrich_item call while an enrich_item call hangs), and
\* with the mercapi adapter, whose enrich_item never raises, a pending
\* enrich_item call leaves recommend waiting.
C18_NoTimeout ==
    /\ (SearchHangs \/ EnrichHangs) => pc # "returned" /\ result = Nothing
    /\ (SearchHangs /\ pc = "raised") => SearchRaised
    /\ (SearchHangs /\ ~SearchRaised) => pc = "searching"
    /\ (EnrichHangs /\ pc = "raised") => EnrichRaised
    /\ (EnrichHangs /\ ~EnrichRaised) => pc = "enriching"
    /\ (EnrichHangs /\ client = "MercapiClient") => pc = "enriching"

\* One search has returned items, the other has not completed: recommend
\* is still waiting.
C18_Witness ==
    /\ pc = "searching"
    /\ Len(search_tasks) = 2
    /\ search_tasks[1].status = "running"
    /\ search_tasks[2].status = "done"
    /\ search_tasks[2].value # <<>>
    /\ ~ENABLED PoolAndEnrich

\* The call of chat of session s has called recommend; the tool call it
\* last did so for, and the "candidates" list of that tool call.
CalledRecommend(s) == chat[s].pc \in {"awaiting", "returned"} /\ chat[s].svc # Nothing
LastToolCall(s) == chat[s].first_msg[1].tool_calls[chat[s].tc]
LastPayload(s) == LastToolCall(s).arguments.candidates

\* The non-null max prices of a "candidates" list.
MaxPricesOf(payload) ==
    {payload[k].max_price_jpy[1] :
        k \in {j \in 1..Len(payload) : payload[j].max_price_jpy # Nothing}}

\* The products of the tool results that session s holds for its last call
\* of recommend.
LastRecs(s) ==
    UNION {Range(chat[s].tool_msgs[k].content) :
             k \in {j \in 1..Len(chat[s].tool_msgs) :
                      chat[s].tool_msgs[j].tool_call_id = LastToolCall(s).id}}

\* C16. Global price bound: the service of a tool call has as max price the
\* smallest non-null max price of the call's candidates, and none when no
\* candidate has one; every product of the tool result, whichever
\* candidate's search returned it, is priced at most that bound and, with a
\* bound of 10000 or more, at least max(500, bound / 4 rounded down).
C16_GlobalPriceBound ==
    \A s \in Sessions :
        CalledRecommend(s) =>
            LET bound == chat[s].svc[1].max_price_jpy
                values == MaxPricesOf(LastPayload(s))
            IN  /\ values = {} => bound = Nothing
                /\ values # {} =>
                      /\ bound # Nothing
                      /\ bound[1] \in values
                      /\ \A v \in values : bound[1] <= v
                      /\ \A p \in LastRecs(s) :
                            /\ p.price_jpy <= bound[1]
                            /\ bound[1] >= 10000 =>
                                  p.price_jpy >= Max(500, bound[1] \div 4)

\* The keywords of a candidate are a string with a character that is not a
\* space.
WellFormed(cand) ==
    /\ cand.keywords.type = "str"
    /\ \E i \in 1..Len(cand.keywords.str) : cand.keywords.str[i] # " "

\* q is the text kw without the spaces at its ends.
Trimmed(kw, q) ==
    /\ q # <<>> /\ q[1] # " " /\ q[Len(q)] # " "
    /\ \E i \in 0..(Len(kw) - Len(q)) :
          /\ SubSeq(kw, i + 1, i + Len(q)) = q
          /\ \A j \in 1..Len(kw) : (j <= i \/ j > i + Len(q)) => kw[j] = " "

\* The candidates of a tool call that chat handles as a recommendation
\* request.
PayloadOf(tcall) ==
    IF tcall.name = "get_recommendations" /\ tcall.arguments.json = "object"
    THEN tcall.arguments.candidates
    ELSE <<>>

\* The number of tool calls of the turn of session s handled so far: up to
\* the one awaited, or all of them once chat has returned without error.
Handled(s) ==
    IF chat[s].pc = "awaiting" THEN chat[s].tc ELSE Len(chat[s].first_msg[1].tool_calls)

RECURSIVE WellFormedCount(_, _)
\* The number of well-formed candidates of the first n tool calls.
WellFormedCount(tool_calls, n) ==
    IF n = 0
    THEN 0
    ELSE WellFormedCount(tool_calls, n - 1)
         + Len(SelectSeq(PayloadOf(tool_calls[n]), WellFormed))

\* C17. Malformed candidate: the searches of a turn are as many as the
\* well-formed candidates of its tool calls, so none is issued for a
\* candidate whose keywords are missing, not a string or blank; the requests
\* of a call of recommend are the well-formed candidates of the tool call,
\* in order, with the trimmed keywords as query text; and when no candidate
\* of a tool call is well-formed, recommend is not called, no search is
\* issued and the tool message holds an empty list.
C17_MalformedCandidate ==
    \A s \in Sessions :
        /\ (chat[s].pc = "awaiting" \/ (chat[s].pc = "returned" /\ ~chat[s].caught)) =>
              Len(chat[s].client_calls)
                = WellFormedCount(chat[s].first_msg[1].tool_calls, Handled(s))
        /\ CalledRecommend(s) =>
              LET kept == SelectSeq(LastPayload(s), WellFormed)
              IN  /\ Len(chat[s].search_requests) = Len(kept)
                  /\ kept # <<>>
                  /\ \A k \in 1..Len(kept) :
                        Trimmed(kept[k].keywords.str, chat[s].search_requests[k].query_text)
        /\ (/\ chat[s].pc = "returned"
            /\ Len(chat[s].first_msg[1].tool_calls) = 1
            /\ PayloadOf(chat[s].first_msg[1].tool_calls[1]) # <<>>
            /\ \A k \in 1..Len(PayloadOf(chat[s].first_msg[1].tool_calls[1])) :
                  /\ PayloadOf(chat[s].first_msg[1].tool_calls[1])[k].is_dict
                  /\ ~WellFormed(PayloadOf(chat[s].first_msg[1].tool_calls[1])[k]))
           => /\ chat[s].svc = Nothing
              /\ chat[s].client_calls = <<>>
              /\ Len(chat[s].tool_msgs) = 1
              /\ chat[s].tool_msgs[1].content = <<>>

\* A tool call with four candidates, three of them malformed (keywords
\* missing, blank, a number): chat has returned after one search.
C17_Witness ==
    \E s \in Sessions :
        /\ chat[s].pc = "returned"
        /\ ~chat[s].caught
        /\ CalledRecommend(s)
        /\ Len(LastPayload(s)) = 4
        /\ Len(chat[s].client_calls) = 1
        /\ Len(chat[s].tool_msgs) = 1

\* The last n entries of a list.
LastN(h, n) == [i \in 1..Min(n, Len(h)) |-> h[Len(h) - Min(n, Len(h)) + i]]

\* The history entry of the apology.
ApologyEntry == [role |-> "assistant", content |-> APOLOGY, tool_calls |-> <<>>]

\* The turn of session s is one in which something is sure to raise: the
\* first completion call, or the handling of the arguments of its first tool
\* call (arguments that are no object, a candidate that is no object).
SureToRaise(s) ==
    LET first == chat[s].first_msg[1]
    IN  \/ first.kind = "raise"
        \/ /\ first.tool_calls # <<>>
           /\ first.tool_calls[1].name = "get_recommendations"
           /\ \/ first.tool_calls[1].arguments.json = "list"
              \/ \E k \in 1..Len(first.tool_calls[1].arguments.candidates) :
                    ~first.tool_calls[1].arguments.candidates[k].is_dict

\* chat returns in this step for session s, through its except branch.
ReturnsCaught(s) ==
    /\ chat'[s] # chat[s]
    /\ chat'[s].pc = "returned"
    /\ chat'[s].caught

\* C19. Chat error containment: a call of chat in which a completion call
\* or the handling of the arguments raises still returns, with the apology;
\* and whenever chat returns through its except branch (a search failure
\* and the second completion call included), its reply is the apology and
\* the history is the one before with the user message and the apology
\* entry appended (and cut to its last 2 * MAX_TURNS entries): none of the
\* tool messages gathered in the turn is in it.
C19_ErrorContainment ==
    [][\A s \in Sessions :
          /\ (chat'[s].pc = "returned" /\ SureToRaise(s)') =>
                chat'[s].caught /\ chat'[s].final_reply = Some(APOLOGY)
          /\ ReturnsCaught(s) =>
                /\ chat'[s].final_reply = Some(APOLOGY)
                /\ history' = LastN(history \o <<chat'[s].user_msg[1], ApologyEntry>>,
                                    2 * MAX_TURNS)
                /\ \A i \in 1..Len(history') : history'[i].role \in {"user", "assistant"}
      ]_vars

\* A second turn gathered a tool result with products, then raised: chat
\* has returned the apology and the history ends with it.
C19_Witness ==
    \E s \in Sessions :
        /\ chat[s].pc = "returned"
        /\ chat[s].caught
        /\ chat[s].final_reply = Some(APOLOGY)
        /\ chat[s].tool_msgs # <<>>
        /\ chat[s].tool_msgs[1].content # <<>>
        /\ Len(history) = 4
        /\ history[3] = chat[s].user_msg[1]
        /\ history[4] = ApologyEntry

\* The number of calls of chat that have returned.
TurnsReturned == turns - Cardinality({s \in Sessions : chat[s].pc = "awaiting"})

\* chat returns in this step for session s.
Returns(s) == chat'[s] # chat[s] /\ chat'[s].pc = "returned"

\* The history holds at most 12 entries, an even number, in adjacent (user,
\* assistant) pairs, one pair for each of the last 6 calls that returned and
\* no two for the same call.
HistoryShape ==
    /\ Len(history) <= 12
    /\ Len(history) % 2 = 0
    /\ Len(history) = 2 * Min(6, TurnsReturned)
    /\ \A i \in 1..Len(history) :
          history[i].role = (IF i % 2 = 1 THEN "user" ELSE "assistant")
    /\ \A i, j \in 1..Len(history) :
          (i < j /\ i % 2 = 1 /\ j % 2 = 1) => history[i].content # history[j].content

\* C20. History bound: initially and after every step of the calls of chat,
\* overlapping or not, the history holds at most 12 entries, an even number,
\* in adjacent (user, assistant) pairs, one pair for each of the last 6
\* calls that returned; the history changes only when a call returns, and is
\* then the one before with that call's pair appended, cut to its 12 most
\* recent entries.
C20_HistoryBound ==
    /\ HistoryShape
    /\ [][/\ HistoryShape'
          /\ (\A s \in Sessions : ~Returns(s)) => history' = history
          /\ \A s \in Sessions :
                Returns(s) =>
                    /\ history' # <<>>
                    /\ history' = LastN(history \o <<chat'[s].user_msg[1],
                                                     history'[Len(history')]>>, 12)
         ]_vars

\* Seven calls have returned, the seventh before the sixth, which it
\* overlapped: the history holds the pairs of the last six, and the pair of
\* the first call is gone.
C20_Witness ==
    /\ turns = 7
    /\ TurnsReturned = 7
    /\ Len(history) = 12
    /\ history[1].content = UserQuery(2)
    /\ history[9].content = UserQuery(7)
    /\ history[11].content = UserQuery(6)
    /\ history[12] = ApologyEntry

\* C21. History content: after any chat turn the history holds only user
\* requests and natural-language assistant replies: no entry is a tool
\* message and no assistant entry carries tool calls, whatever the shape of
\* the first completion (no tool call, get_recommendations calls, only
\* unknown tool calls, or a mix).
C21_HistoryContent ==
    \A i \in 1..Len(history) :
        /\ history[i].role \in {"user", "assistant"}
        /\ history[i].tool_calls = <<>>

\* The raw item at position i of the pool passes the item-type and price
\* filters.
TypeAndPriceKept(i) ==
    LET r == raw_items[i]
        M == svc.max_price_jpy
    IN  /\ ~TruthyStr(r.item_type) \/ r.item_type = ITEM_TYPE_MERCARI
        /\ Truthy(M) =>
              /\ r.price <= M[1]
              /\ M[1] >= 10000 => r.price >= Max(500, M[1] \div 4)

\* The seller of the raw item at position i of the pool has a rating of at
\* least n in the listing's detail.
SellerRatedAtLeast(i, n) ==
    /\ raw_items[i].full.kind = "ok"
    /\ raw_items[i].full.item[1].seller # Nothing
    /\ raw_items[i].full.item[1].seller[1].star_rating_score >= n

\* C22. Rating filter: it runs on shallow items, whose seller rating is
\* absent and counted as 0: an item that passes the other filters is
\* dropped if and only if the configured minimum seller rating is greater
\* than 0; with a positive minimum the shortlist is empty, no enrich_item
\* call is issued and a call that returns, returns an empty list, whatever
\* ratings the sellers have.
C22_RatingFilter ==
    /\ Pooled =>
          \A i \in 1..Len(raw_items) :
              Survives(i) <=> (TypeAndPriceKept(i) /\ svc.min_seller_rating <= 0)
    /\ \A k \in 1..Len(candidates) : candidates[k].seller_rating = Nothing
    /\ svc.min_seller_rating > 0 =>
          /\ candidates = <<>>
          /\ enrich_tasks = <<>>
          /\ enriched = <<>>
          /\ pc = "returned" => result = Some(<<>>)

\* With a minimum rating of 1, recommend has returned an empty list from a
\* pool holding a listing that passes the other filters and whose seller is
\* rated 5.
C22_Witness ==
    /\ svc.min_seller_rating = 1
    /\ pc = "returned"
    /\ result = Some(<<>>)
    /\ enrich_tasks = <<>>
    /\ \E i \in 1..Len(raw_items) : TypeAndPriceKept(i) /\ SellerRatedAtLeast(i, 5)

\* Some enrich_item call of the call has raised.
EnrichCallRaised == \E k \in 1..Len(enrich_tasks) : enrich_tasks[k].status = "raised"

\* The fetch of the detail of the k-th candidate raises.
FetchRaises(k) == enrich_args(candidates, raw_items)[k].full.kind = "raise"

\* C23. No isolation in the pipeline: an enrich_item call raises exactly
\* when the fetch raises and the client is not the mercapi adapter, which
\* turns the error into the unavailable value; once an enrich_item call has
\* raised, recommend has raised or is about to, and it returns no ranking
\* and merges nothing, whatever the other enrich_item calls returned; and
\* recommend raises after its searches returned only for such a call.
C23_NoPipelineIsolation ==
    /\ \A k \in 1..Len(enrich_tasks) :
          enrich_tasks[k].status # "running" =>
              /\ enrich_tasks[k].status = "raised"
                    <=> (client # "MercapiClient" /\ FetchRaises(k))
              /\ (client = "MercapiClient" /\ FetchRaises(k)) =>
                    enrich_tasks[k] = Returned(Nothing)
    /\ EnrichCallRaised =>
          /\ pc = "raised" \/ (pc = "enriching" /\ ENABLED EnrichRaise)
          /\ result = Nothing
          /\ enriched = <<>>
    /\ (pc = "raised" /\ ~SearchRaised) => EnrichCallRaised

\* With a client whose enrich_item lets errors through, recommend has
\* raised on one enrichment while the other had returned a detail record.
C23_Witness ==
    /\ client = "PropagatingClient"
    /\ pc = "raised"
    /\ Len(enrich_tasks) = 2
    /\ \E j, k \in 1..2 :
          /\ enrich_tasks[j].status = "raised"
          /\ enrich_tasks[k].status = "done"
          /\ enrich_tasks[k].value # Nothing

\* C24. Merge alignment: every candidate has the identifier of exactly one
\* item of the pool; one enrich_item call is issued per candidate, the k-th
\* for the k-th candidate, and what it returns is the detail fetched for the
\* pooled item with that candidate's identifier (nothing when that fetch
\* fails); every merged product is the candidate with its identifier merged
\* with the detail fetched for the pooled item with that identifier,
\* whichever enrichments failed.
C24_MergeAlignment ==
    Pooled =>
        /\ \A k \in 1..Len(candidates) :
              Cardinality({i \in 1..Len(raw_items) : raw_items[i].id_ = candidates[k].id}) = 1
        /\ Len(enrich_tasks) = Len(candidates)
        /\ \A k \in 1..Len(enrich_tasks) :
              enrich_tasks[k].status = "done" =>
                  enrich_tasks[k].value = RawOf(candidates[k].id).full.item
        /\ \A j \in 1..Len(enriched) :
              /\ \E k \in 1..Len(candidates) : candidates[k].id = enriched[j].id
              /\ EnrichOk(candidates[CandidatePos(enriched[j].id)])
              /\ enriched[j] = _merge_full(RawOf(enriched[j].id).full.item[1],
                                           candidates[CandidatePos(enriched[j].id)])

\* The shortlist reversed the order of the pool; the fetch for the first
\* candidate failed and recommend has returned the second one, with the
\* shipping payer of its own detail record.
C24_Witness ==
    /\ pc = "returned"
    /\ Len(raw_items) = 2
    /\ Len(candidates) = 2
    /\ candidates[1].id = raw_items[2].id_
    /\ enrich_tasks[1].value = Nothing
    /\ Len(result[1]) = 1
    /\ result[1][1].id = raw_items[1].id_
    /\ result[1][1].shipping_fee_included
    /\ RawOf(result[1][1].id).full.item[1].shipping_payer = Some([code |-> "seller"])

\* The identifiers of the products of the tool result of session s, in
\* order.
RecIds(s) ==
    [k \in 1..Len(chat[s].tool_msgs[1].content) |-> chat[s].tool_msgs[1].content[k].id]

\* C25. Bound before skip: the service of a tool call has as max price the
\* smallest non-null max price over every candidate of the payload, the
\* candidates skipped as malformed included (none when no candidate has
\* one), while its searches are those of the well-formed candidates only: a
\* skipped candidate issues no search and its max price still takes part in
\* the bound.
C25_BoundBeforeSkip ==
    \A s \in Sessions :
        CalledRecommend(s) =>
            LET payload == LastPayload(s)
                bound == chat[s].svc[1].max_price_jpy
                values == MaxPricesOf(payload)
            IN  /\ values = {} => bound = Nothing
                /\ values # {} =>
                      /\ bound # Nothing
                      /\ bound[1] \in values
                      /\ \A v \in values : bound[1] <= v
                /\ Len(chat[s].search_requests) = Len(SelectSeq(payload, WellFormed))

\* Two turns searched "ab" without a max price of its own and got the same
\* kind of answer.  The payload of one turn had no other candidate: it
\* returned the items priced 6000 and 25000.  The payload of the other had
\* a second candidate with blank keywords and max price 20000: one search
\* was issued, under the bound 20000, and only the item priced 6000 came
\* back.
C25_Witness ==
    \E s, t \in Sessions :
        /\ chat[s].pc = "returned" /\ ~chat[s].caught /\ CalledRecommend(s)
        /\ chat[t].pc = "returned" /\ ~chat[t].caught /\ CalledRecommend(t)
        /\ LastPayload(t) = <<Candidate(KwStr(S_ab), Nothing)>>
        /\ chat[t].svc[1].max_price_jpy = Nothing
        /\ Len(chat[t].tool_msgs) = 1
        /\ RecIds(t) = <<"m1", "m3">>
        /\ LastPayload(s) = <<Candidate(KwStr(S_ab), Nothing),
                              Candidate(KwStr(S_sp), Some(20000))>>
        /\ chat[s].svc[1].max_price_jpy = Some(20000)
        /\ Len(chat[s].client_calls) = 1
        /\ Len(chat[s].tool_msgs) = 1
        /\ RecIds(s) = <<"m1">>
====
